---- MODULE Spec2Model ----
(***************************************************************************)
(* Text chunking and batch orchestration of the audio generator page.      *)
(*                                                                         *)
(* Two builds of the page exist in the repository:                         *)
(*   "perChunk"   src/unnamed/part_000  (batch of 5, one request per chunk *)
(*                issued by the page, 65 s countdown BEFORE each batch)    *)
(*   "batchRoute" src/src/app/page.tsx  (batch of 10, one request per      *)
(*                batch to /api/generate-audio-batch, 3 s wait AFTER)      *)
(* The variable `variant` selects the build; it never changes.             *)
(*                                                                         *)
(* A text is a sequence of one-character strings.  Offsets are 0-based as  *)
(* in the source; substring(a, b) is SubSeq(t, a + 1, b).                  *)
(*                                                                         *)
(* React state (useState) is the set of variables text .. delayCountdown.  *)
(* A running handleGenerateAudio is an async closure: it keeps the values  *)
(* of isPaused, textChunks, batchProgress and selectedProvider of the      *)
(* render in which the button was clicked (the record `run`), reads only   *)
(* those, and writes the React state through the setters.  One action is   *)
(* one synchronous stretch of code between two awaits.                     *)
(***************************************************************************)
EXTENDS Integers, Sequences, FiniteSets, TLC

VARIABLES
    variant,          \* which build of the page is running
    text,             \* useState text
    selectedProvider, \* useState selectedProvider
    selectedVoice,    \* useState selectedVoice
    isGenerating,     \* useState isGenerating
    isPaused,         \* useState isPaused
    textChunks,       \* useState textChunks
    audioChunks,      \* useState audioChunks (the ChunkJob list)
    batchProgress,    \* useState batchProgress: <<>> is null, <<r>> a value
    delayCountdown,   \* useState delayCountdown
    summary,          \* the final "Generation completed!" message: <<>> or <<r>>
    message,          \* useState message (the text of the banner, by kind)
    run,              \* closure and position of the running handleGenerateAudio
    calls,            \* chunk promises of the batch being processed, by position
    arrivals,         \* history: positions of the promises of the latest batch in the order they settled
    issued,           \* number of generation requests issued per chunk index in this run
    runs,             \* number of runs started so far
    chunker,          \* frame of a call of chunkText: arguments, locals, position
    archive,          \* the ZIP handed to saveAs: <<>> is none, <<entries>> an archive
    route             \* frame of a call of POST /api/generate-audio-batch on the server

vars == <<variant, text, selectedProvider, selectedVoice, isGenerating, isPaused,
          textChunks, audioChunks, batchProgress, delayCountdown, summary,
          message, run, calls, arrivals, issued, runs, chunker, archive, route>>

\* everything but the frame of chunkText
pageVars == <<variant, text, selectedProvider, selectedVoice, isGenerating, isPaused,
              textChunks, audioChunks, batchProgress, delayCountdown, summary,
              message, run, calls, arrivals, issued, runs, archive, route>>

\* the state of the page
pageVars_NoRoute ==
    <<variant, text, selectedProvider, selectedVoice, isGenerating, isPaused,
      textChunks, audioChunks, batchProgress, delayCountdown, summary,
      message, run, calls, arrivals, issued, runs, archive>>

-----------------------------------------------------------------------------
(* Bounds and scaled program constants *)

\* TTS_PROVIDERS[p].chunkSize is 3000 for both providers; scaled down.
chunkSize == 3

\* const batchSize = 5 (perChunk build); scaled down.
batchSizePerChunk == 2

\* const batchSize = 10 (batchRoute build); scaled down.
batchSizeBatchRoute == 2

\* const delaySeconds = 65 (perChunk build); scaled down.
delaySeconds == 2

Min(a, b) == IF a < b THEN a ELSE b

\* Math.ceil(a / b) for a >= 0, b > 0
Ceil(a, b) == (a + b - 1) \div b

-----------------------------------------------------------------------------
(* Strings *)

\* \s restricted to the characters of the model alphabet
IsSpace(c) == c \in {" ", "\n", "\r"}

\* [\n\r]
IsLineBreak(c) == c \in {"\n", "\r"}

\* [.?!]
IsTerminator(c) == c \in {".", "?", "!"}

\* String.prototype.substring(a, b) with 0 <= a <= b <= length
Substring(t, a, b) == SubSeq(t, a + 1, b)

RECURSIVE TrimStart(_)
TrimStart(t) ==
    IF t # <<>> /\ IsSpace(Head(t)) THEN TrimStart(Tail(t)) ELSE t

RECURSIVE TrimEnd(_)
TrimEnd(t) ==
    IF t # <<>> /\ IsSpace(t[Len(t)]) THEN TrimEnd(SubSeq(t, 1, Len(t) - 1)) ELSE t

\* String.prototype.trim
Trim(t) == TrimEnd(TrimStart(t))

\* end (exclusive, 0-based) of the greedy run of characters satisfying
\* IsSpace (kind = "s") or IsLineBreak (kind = "n") that starts at offset j of s
RECURSIVE RunEnd(_, _, _)
RunEnd(s, j, kind) ==
    IF j < Len(s) /\ (IF kind = "s" THEN IsSpace(s[j + 1]) ELSE IsLineBreak(s[j + 1]))
    THEN RunEnd(s, j + 1, kind)
    ELSE j

\* mutant: the scan stops at the first match instead of keeping the last one
RECURSIVE LastMatchEnd_First(_, _, _)
LastMatchEnd_First(s, j, last) ==
    IF j >= Len(s) THEN last
    ELSE IF IsTerminator(s[j + 1]) /\ j + 1 < Len(s) /\ IsSpace(s[j + 2])
         THEN RunEnd(s, j + 1, "s")
    ELSE IF IsLineBreak(s[j + 1])
         THEN RunEnd(s, j, "n")
    ELSE LastMatchEnd_First(s, j + 1, last)

\* the loop `while ((match = sentenceEndChars.exec(searchSubstr)) !== null)`
\* for /[.?!]\s+|[\n\r]+/g : scans s from offset j and returns the end offset
\* (match.index + match[0].length, relative to s) of the last match, or
\* `last` when no further match exists.
RECURSIVE LastMatchEnd(_, _, _)
LastMatchEnd(s, j, last) ==
    IF j >= Len(s) THEN last
    ELSE IF IsTerminator(s[j + 1]) /\ j + 1 < Len(s) /\ IsSpace(s[j + 2])
         THEN LET e == RunEnd(s, j + 1, "s") IN LastMatchEnd(s, e, e)
    ELSE IF IsLineBreak(s[j + 1])
         THEN LET e == RunEnd(s, j, "n") IN LastMatchEnd(s, e, e)
    ELSE LastMatchEnd(s, j + 1, last)

\* mutant: the search starts below `from`, lastIndexOf(' ', from - 1)
RECURSIVE LastIndexOfSpace_Exclusive(_, _)
LastIndexOfSpace_Exclusive(t, from) ==
    IF from < 1 THEN -1
    ELSE IF from - 1 < Len(t) /\ t[from] = " " THEN from - 1
    ELSE LastIndexOfSpace_Exclusive(t, from - 1)

\* String.prototype.lastIndexOf(' ', from): the largest index <= from holding
\* a space, -1 when there is none
RECURSIVE LastIndexOfSpace(_, _)
LastIndexOfSpace(t, from) ==
    IF from < 0 THEN -1
    ELSE IF from < Len(t) /\ t[from + 1] = " " THEN from
    ELSE LastIndexOfSpace(t, from - 1)

-----------------------------------------------------------------------------
(* Chunker *)

TextChunk(i, t, s, e) == [index |-> i, text |-> t, startChar |-> s, endChar |-> e]

\* mutant: the hard cut falls one character before chunkEnd
SplitPosition_HardCutEarly(t, cur, chunkEnd) ==
    LET m == LastMatchEnd(Substring(t, cur, chunkEnd), 0, -1)
        lastMatchPosition == IF m = -1 THEN -1 ELSE cur + m
        spacePosition == LastIndexOfSpace(t, chunkEnd)
    IN  IF lastMatchPosition > cur /\ lastMatchPosition <= chunkEnd
        THEN lastMatchPosition
        ELSE IF spacePosition > cur THEN spacePosition + 1 ELSE chunkEnd - 1

\* mutant: any space found by lastIndexOf is taken, also one at or before
\* currentPosition
SplitPosition_AnySpace(t, cur, chunkEnd) ==
    LET m == LastMatchEnd(Substring(t, cur, chunkEnd), 0, -1)
        lastMatchPosition == IF m = -1 THEN -1 ELSE cur + m
        spacePosition == LastIndexOfSpace(t, chunkEnd)
    IN  IF lastMatchPosition > cur /\ lastMatchPosition <= chunkEnd
        THEN lastMatchPosition
        ELSE IF spacePosition >= 0 THEN spacePosition + 1 ELSE chunkEnd

\* the split position chosen by one iteration of the while loop of chunkText,
\* for currentPosition cur and chunkEnd = cur + maxLength < length
SplitPosition(t, cur, chunkEnd) ==
    LET m == LastMatchEnd(Substring(t, cur, chunkEnd), 0, -1)
        lastMatchPosition == IF m = -1 THEN -1 ELSE cur + m
        spacePosition == LastIndexOfSpace(t, chunkEnd)
    IN  IF lastMatchPosition > cur /\ lastMatchPosition <= chunkEnd
        THEN lastMatchPosition
        ELSE IF spacePosition > cur THEN spacePosition + 1 ELSE chunkEnd

\* the while loop of chunkText
RECURSIVE ChunkLoop(_, _, _, _, _)
ChunkLoop(t, maxLength, currentPosition, chunkIndex, chunks) ==
    IF currentPosition >= Len(t) THEN chunks
    ELSE LET chunkEnd == currentPosition + maxLength IN
         IF chunkEnd >= Len(t)
         THEN Append(chunks, TextChunk(chunkIndex, Substring(t, currentPosition, Len(t)),
                                       currentPosition, Len(t)))
         ELSE LET splitPosition == SplitPosition(t, currentPosition, chunkEnd)
                  piece == Trim(Substring(t, currentPosition, splitPosition))
              IN  IF Len(piece) > 0
                  THEN ChunkLoop(t, maxLength, splitPosition, chunkIndex + 1,
                                 Append(chunks, TextChunk(chunkIndex, piece,
                                                          currentPosition, splitPosition)))
                  ELSE ChunkLoop(t, maxLength, splitPosition, chunkIndex, chunks)

chunkText(t, maxLength) ==
    IF t = <<>> \/ Len(t) <= maxLength
    THEN << TextChunk(0, t, 0, Len(t)) >>
    ELSE ChunkLoop(t, maxLength, 0, 0, <<>>)

\* no call of chunkText is being followed
\* (iterations counts the iterations of the while loop entered so far)
NoCall == [text |-> <<>>, maxLength |-> 0, pc |-> "none", currentPosition |-> 0,
           chunkIndex |-> 0, chunks |-> <<>>, iterations |-> 0]

\* mutant: the early return is not taken for the empty text
ShortText_NoEmpty(t, maxLength) == t # <<>> /\ Len(t) <= maxLength

\* if (!text || text.length <= maxLength)
ShortText(t, maxLength) == t = <<>> \/ Len(t) <= maxLength

\* mutant: the last chunk is cut at maxLength - 1 characters
LastChunk_Short(t, currentPosition, chunkIndex) ==
    TextChunk(chunkIndex, Substring(t, currentPosition, Len(t) - 1), currentPosition, Len(t))

\* the chunk pushed before the break: text.substring(currentPosition), not trimmed
LastChunk(t, currentPosition, chunkIndex) ==
    TextChunk(chunkIndex, Substring(t, currentPosition, Len(t)), currentPosition, Len(t))

\* mutant: the piece is not trimmed
Piece_NoTrim(t, currentPosition, splitPosition) ==
    Substring(t, currentPosition, splitPosition)

\* text.substring(currentPosition, splitPosition).trim()
Piece(t, currentPosition, splitPosition) ==
    Trim(Substring(t, currentPosition, splitPosition))

\* mutant: the index is incremented for a discarded piece too
NextChunkIndex_Always(piece, chunkIndex) == chunkIndex + 1

\* if (chunkText.length > 0) { ...; chunkIndex++ }
NextChunkIndex(piece, chunkIndex) ==
    IF Len(piece) > 0 THEN chunkIndex + 1 ELSE chunkIndex

\* chunkText is entered with the arguments of the frame
ChunkerEnter ==
    /\ chunker.pc = "call"
    /\ chunker' = IF ShortText(chunker.text, chunker.maxLength)
                  THEN [chunker EXCEPT
                          !.chunks = << TextChunk(0, chunker.text, 0, Len(chunker.text)) >>,
                          !.pc = "done"]
                  ELSE [chunker EXCEPT !.pc = "loop"]
    /\ UNCHANGED pageVars

\* one evaluation of the while condition and, if it holds, one iteration
ChunkerIterate ==
    /\ chunker.pc = "loop"
    /\ LET t == chunker.text
           cur == chunker.currentPosition
           chunkEnd == cur + chunker.maxLength
       IN  chunker' =
             IF cur >= Len(t) THEN [chunker EXCEPT !.pc = "done"]
             ELSE IF chunkEnd >= Len(t)
             THEN [chunker EXCEPT
                     !.chunks = Append(@, LastChunk(t, cur, chunker.chunkIndex)),
                     !.iterations = @ + 1,
                     !.pc = "done"]
             ELSE LET splitPosition == SplitPosition(t, cur, chunkEnd)
                      piece == Piece(t, cur, splitPosition)
                  IN  [chunker EXCEPT
                         !.chunks = IF Len(piece) > 0
                                    THEN Append(@, TextChunk(chunker.chunkIndex, piece,
                                                             cur, splitPosition))
                                    ELSE @,
                         !.chunkIndex = NextChunkIndex(piece, @),
                         !.iterations = @ + 1,
                         !.currentPosition = splitPosition]
    /\ UNCHANGED pageVars

-----------------------------------------------------------------------------
(* Providers and inputs *)

Providers == {"minimax", "elevenlabs"}

\* TTS_PROVIDERS[p].voices[0].id
FirstVoice(p) ==
    IF p = "minimax" THEN "English_radiant_girl"
    ELSE IF variant = "perChunk" THEN "GUDYcgRAONiI1nXDcNQQ" ELSE "21m00Tcm4TlvDq8ikWAM"

\* TTS_PROVIDERS[p].chunkSize (the same for both providers)
ProviderChunkSize(p) == chunkSize

Rep(n, c) == [k \in 1..n |-> c]

\* number of chunks of the longest text the user types
MaxChunks == 3

\* number of runs the user starts in one behaviour
MaxRuns == 1

\* texts the user types, pastes or uploads
Texts ==
    { <<" ">>,
      Rep(chunkSize, "a"),
      [k \in 1..((MaxChunks - 1) * chunkSize + 1) |->
          IF ((k - 1) \div chunkSize) % 2 = 0 THEN "a" ELSE "b"] }

\* how one generation request can end, as the page sees it:
\*   ok         200 with audio
\*   httpError  non-OK response carrying an error body
\*   throw      fetch rejects
Outcomes == {"ok", "httpError", "throw"}

\* a further way a request can end:
\*   empty      200 whose data URL holds zero bytes of audio (the ElevenLabs
\*              stream ended without data; the route does not test the
\*              buffer length, as it does for MiniMax)
AllOutcomes == Outcomes \cup {"empty"}

\* `data:audio/mpeg;base64,${base64Audio}` for an empty audioBuffer
EmptyDataUrl == "data:audio/mpeg;base64,"

Undefined == "undefined"

NoRun == [isPaused |-> FALSE, textChunks |-> <<>>, batchProgress |-> <<>>,
          selectedProvider |-> "minimax", selectedVoice |-> "",
          batchIndex |-> 0, phase |-> "none", i |-> 0]

-----------------------------------------------------------------------------
(* Generation client *)

charsPerSecond == 15

\* the body of a 200 response of /api/generate-audio-comprehensive
FileName(provider, voice, chunkIndex) == <<provider, voice, chunkIndex>>

\* error.message caught by the chunk promise: the error field of the non-OK
\* response body, or the message of the rejected fetch
ErrorMessage(o) == IF o = "httpError" THEN "Failed to generate audio" ELSE "fetch failed"

\* the value one chunk promise of processBatch resolves to
ChunkResult(chunk, provider, voice, o) ==
    IF o \in {"ok", "empty"}
    THEN [chunkIndex |-> chunk.index, success |-> TRUE,
          audioUrl |-> IF o = "ok" THEN "data:audio" ELSE EmptyDataUrl,
          duration |-> Ceil(Len(chunk.text), charsPerSecond),
          filename |-> FileName(provider, voice, chunk.index),
          error |-> Undefined]
    ELSE [chunkIndex |-> chunk.index, success |-> FALSE,
          audioUrl |-> Undefined, duration |-> 0, filename |-> <<>>,
          error |-> ErrorMessage(o)]

\* mutant: the k-th result holds the outcome of the k-th request to settle
processBatch_ArrivalOrder(batchChunks, provider, voice, settled) ==
    [k \in 1..Len(batchChunks) |->
        ChunkResult(batchChunks[k], provider, voice, settled[arrivals[k]])]

\* processBatch after Promise.allSettled: one result per chunk, in batch order
processBatch(batchChunks, provider, voice, settled) ==
    [k \in 1..Len(batchChunks) |-> ChunkResult(batchChunks[k], provider, voice, settled[k])]

-----------------------------------------------------------------------------
(* Batch scheduler: pure parts *)

batchSize == IF variant = "perChunk" THEN batchSizePerChunk ELSE batchSizeBatchRoute

\* mutant: the division is rounded down
TotalBatches_Floor(tc) == Len(tc) \div batchSize

\* const totalBatches = Math.ceil(textChunks.length / batchSize)
TotalBatches(tc) == Ceil(Len(tc), batchSize)

\* mutant: the slice has no end, textChunks.slice(batchStart)
BatchChunks_NoEnd(tc, batchIndex) ==
    Substring(tc, Min(batchIndex * batchSize, Len(tc)), Len(tc))

\* mutant: batchStart is the batch index, not batchIndex * batchSize
BatchChunks_Overlap(tc, batchIndex) ==
    Substring(tc, Min(batchIndex, Len(tc)), Min(batchIndex + batchSize, Len(tc)))

\* textChunks.slice(batchStart, batchEnd)
BatchChunks(tc, batchIndex) ==
    LET batchStart == batchIndex * batchSize
        batchEnd == Min(batchStart + batchSize, Len(tc))
    IN  Substring(tc, batchStart, batchEnd)

InBatch(batchChunks, chunkIndex) ==
    \E k \in 1..Len(batchChunks) : batchChunks[k].index = chunkIndex

\* mutant: the last chunk gets no job
InitialAudioChunks_DropLast(tc) ==
    [k \in 1..(Len(tc) - 1) |->
        [chunkIndex |-> tc[k].index, audioUrl |-> "", duration |-> 0,
         filename |-> <<>>, status |-> "pending", text |-> tc[k].text,
         error |-> Undefined]]

\* textChunks.map(chunk => ({ ..., status: 'pending', text: chunk.text }))
InitialAudioChunks(tc) ==
    [k \in 1..Len(tc) |->
        [chunkIndex |-> tc[k].index, audioUrl |-> "", duration |-> 0,
         filename |-> <<>>, status |-> "pending", text |-> tc[k].text,
         error |-> Undefined]]

\* mutant: every job is marked generating, whatever its batch
MarkGenerating_All(ac, batchChunks) ==
    [k \in 1..Len(ac) |-> [ac[k] EXCEPT !.status = "generating"]]

\* setAudioChunks(prev => prev.map(... status: 'generating' ...))
MarkGenerating(ac, batchChunks) ==
    [k \in 1..Len(ac) |->
        IF InBatch(batchChunks, ac[k].chunkIndex)
        THEN [ac[k] EXCEPT !.status = "generating"]
        ELSE ac[k]]

\* results.find(r => r.chunkIndex === chunkIndex): position of the first hit, 0 if none
FindResult(results, chunkIndex) ==
    LET hits == {k \in 1..Len(results) : results[k].chunkIndex = chunkIndex}
    IN  IF hits = {} THEN 0 ELSE CHOOSE k \in hits : \A j \in hits : k <= j

\* mutant: fail-fast join, one failed result fails every job of the batch
UpdateWithResults_FailFast(ac, results) ==
    LET anyFailed == \E k \in 1..Len(results) : ~results[k].success
        firstError == results[CHOOSE k \in 1..Len(results) : ~results[k].success].error
    IN  [k \in 1..Len(ac) |->
            LET f == FindResult(results, ac[k].chunkIndex) IN
            IF f = 0 THEN ac[k]
            ELSE IF anyFailed
                 THEN [ac[k] EXCEPT !.status = "failed", !.error = firstError]
                 ELSE [ac[k] EXCEPT
                         !.status = "completed",
                         !.audioUrl = results[f].audioUrl,
                         !.duration = results[f].duration,
                         !.filename = results[f].filename,
                         !.error = results[f].error]]

\* mutant: the error of the result is not copied into the job
UpdateWithResults_NoError(ac, results) ==
    [k \in 1..Len(ac) |->
        LET f == FindResult(results, ac[k].chunkIndex) IN
        IF f = 0 THEN ac[k]
        ELSE [ac[k] EXCEPT
                !.status = IF results[f].success THEN "completed" ELSE "failed",
                !.audioUrl = IF results[f].audioUrl = Undefined THEN "" ELSE results[f].audioUrl,
                !.duration = results[f].duration,
                !.filename = results[f].filename]]

\* setAudioChunks(prev => prev.map(chunk => { const result = results.find(...) ... }))
UpdateWithResults(ac, results) ==
    [k \in 1..Len(ac) |->
        LET f == FindResult(results, ac[k].chunkIndex) IN
        IF f = 0 THEN ac[k]
        ELSE [ac[k] EXCEPT
                !.status = IF results[f].success THEN "completed" ELSE "failed",
                !.audioUrl = IF results[f].audioUrl = Undefined THEN "" ELSE results[f].audioUrl,
                !.duration = results[f].duration,
                !.filename = results[f].filename,
                !.error = results[f].error]]

\* catch of the batch: mark all chunks in this batch as failed
MarkBatchFailed(ac, batchChunks, msg) ==
    [k \in 1..Len(ac) |->
        IF InBatch(batchChunks, ac[k].chunkIndex)
        THEN [ac[k] EXCEPT !.status = "failed", !.error = msg]
        ELSE ac[k]]

CountSuccess(results) == Cardinality({k \in 1..Len(results) : results[k].success})

\* mutant: failed results are not counted
CountFailed_None(results) == 0

CountFailed(results) == Cardinality({k \in 1..Len(results) : ~results[k].success})

\* mutant: the counters are overwritten by the counts of the batch, not added to
ProgressAfterBatch_Overwrite(bp, batchIndex, results) ==
    IF bp = <<>> THEN <<>>
    ELSE << [bp[1] EXCEPT
               !.completedBatches = batchIndex + 1,
               !.completedChunks = CountSuccess(results),
               !.failedChunks = CountFailed(results)] >>

\* setBatchProgress(prev => prev ? {...prev, completedBatches, completedChunks, failedChunks} : null)
ProgressAfterBatch(bp, batchIndex, results) ==
    IF bp = <<>> THEN <<>>
    ELSE << [bp[1] EXCEPT
               !.completedBatches = batchIndex + 1,
               !.completedChunks = bp[1].completedChunks + CountSuccess(results),
               !.failedChunks = bp[1].failedChunks + CountFailed(results)] >>

\* mutant: a failed batch counts as one failed chunk
ProgressAfterFailedBatch_One(bp, batchIndex, batchChunks) ==
    IF bp = <<>> THEN <<>>
    ELSE << [bp[1] EXCEPT
               !.completedBatches = batchIndex + 1,
               !.failedChunks = bp[1].failedChunks + 1] >>

\* setBatchProgress in the catch of the batch
ProgressAfterFailedBatch(bp, batchIndex, batchChunks) ==
    IF bp = <<>> THEN <<>>
    ELSE << [bp[1] EXCEPT
               !.completedBatches = batchIndex + 1,
               !.failedChunks = bp[1].failedChunks + Len(batchChunks)] >>

\* setBatchProgress(prev => prev ? {...prev, currentBatch: batchIndex + 1} : null)
ProgressCurrentBatch(bp, batchIndex) ==
    IF bp = <<>> THEN <<>> ELSE << [bp[1] EXCEPT !.currentBatch = batchIndex + 1] >>

\* mutant: the perChunk build sends every batch without waiting
LoopTop_NoDelay(r, b) ==
    IF b >= TotalBatches(r.textChunks) THEN "finish"
    ELSE IF r.isPaused THEN "finish"
    ELSE "send"

\* mutant: the loop condition is batchIndex < totalBatches - 1
LoopTop_OffByOne(r, b) ==
    IF b >= TotalBatches(r.textChunks) - 1 THEN "finish"
    ELSE IF r.isPaused THEN "finish"
    ELSE IF variant = "perChunk" /\ b > 0 /\ delaySeconds > 0 THEN "delay"
    ELSE "send"

\* what the for loop does on reaching the top of iteration b with closure r
LoopTop(r, b) ==
    IF b >= TotalBatches(r.textChunks) THEN "finish"
    ELSE IF r.isPaused THEN "finish"
    ELSE IF variant = "perChunk" /\ b > 0 /\ delaySeconds > 0 THEN "delay"
    ELSE "send"

\* what follows the try/catch of batch b
AfterBatch(r, b) ==
    IF variant = "batchRoute" /\ b < TotalBatches(r.textChunks) - 1 /\ ~r.isPaused
    THEN "delay"
    ELSE LoopTop(r, b + 1)

\* mutant: only the voice is checked before the run starts
ConfigError_VoiceOnly(t, voice, tc) ==
    IF voice = "" THEN "Please select a voice" ELSE ""

\* the three checks at the top of handleGenerateAudio: the message of the
\* first one that fails, "" when the configuration is accepted
ConfigError(t, voice, tc) ==
    IF Trim(t) = <<>> THEN "Please enter some text to generate audio"
    ELSE IF voice = "" THEN "Please select a voice"
    ELSE IF Len(tc) = 0 THEN "No text chunks to process"
    ELSE ""

\* the banner after the stretch of code that Continue models: showMessage of
\* the loop top, of the wait and of the final summary; msg is the banner so far
MessageAfter(kind, r, b, msg) ==
    CASE kind = "finish" ->
            IF r.batchProgress # <<>> THEN "Generation completed!"
            ELSE IF r.isPaused /\ b < TotalBatches(r.textChunks)
                 THEN "Generation paused by user"
                 ELSE msg
      [] kind = "delay" -> "Waiting before next batch"
      [] kind = "send" -> msg

-----------------------------------------------------------------------------
(* Batch scheduler: the run *)

\* The code that follows a synchronous stretch of handleGenerateAudio, up to
\* its next await or its end.  kind is the value of LoopTop / AfterBatch, r the
\* closure, b the batch index the loop is at, ac / bp / iss the values of
\* audioChunks / batchProgress / issued after the setters already queued.
Continue(kind, r, b, ac, bp, iss) ==
    CASE kind = "finish" ->
            \* const finalProgress = batchProgress (the value of the closure),
            \* then the finally block
            /\ summary' = IF r.batchProgress # <<>>
                          THEN << [totalChunks |-> r.batchProgress[1].totalChunks,
                                   completedChunks |-> r.batchProgress[1].completedChunks,
                                   failedChunks |-> r.batchProgress[1].failedChunks] >>
                          ELSE summary
            /\ isGenerating' = FALSE
            /\ isPaused' = FALSE
            /\ delayCountdown' = 0
            /\ audioChunks' = ac
            /\ batchProgress' = bp
            /\ issued' = iss
            /\ calls' = <<>>
            /\ run' = NoRun
            /\ UNCHANGED arrivals
      [] kind = "delay" ->
            \* perChunk: first round of the countdown loop, setDelayCountdown(i)
            \* batchRoute: await of the 3 second timeout
            /\ delayCountdown' = IF variant = "perChunk" THEN delaySeconds ELSE delayCountdown
            /\ audioChunks' = ac
            /\ batchProgress' = bp
            /\ issued' = iss
            /\ calls' = <<>>
            /\ run' = [r EXCEPT !.batchIndex = b, !.phase = "delay",
                                !.i = IF variant = "perChunk" THEN delaySeconds ELSE 0]
            /\ UNCHANGED <<summary, arrivals>>
      [] kind = "send" ->
            \* (after a countdown: setDelayCountdown(0), which is also the value
            \* wherever no countdown ran;) slice the batch, set currentBatch,
            \* mark its chunks generating and start one request per chunk
            \* (processBatch up to its await)
            LET batchChunks == BatchChunks(r.textChunks, b) IN
            /\ delayCountdown' = 0
            /\ batchProgress' = ProgressCurrentBatch(bp, b)
            /\ audioChunks' = MarkGenerating(ac, batchChunks)
            /\ calls' = [k \in 1..Len(batchChunks) |-> "inflight"]
            /\ arrivals' = <<>>
            /\ issued' = [c \in DOMAIN iss |->
                            IF InBatch(batchChunks, c) THEN iss[c] + 1 ELSE iss[c]]
            /\ run' = [r EXCEPT !.batchIndex = b, !.phase = "inflight", !.i = 0]
            /\ UNCHANGED summary

\* mutant: the Generate button stays enabled while a run is in progress
GenerateBusy_Never == FALSE

\* the first disjunct of the button's disabled attribute, the one the handler
\* does not check again
GenerateBusy == isGenerating

\* disabled={isGenerating || !text.trim() || textChunks.length === 0}
GenerateDisabled == GenerateBusy \/ Trim(text) = <<>> \/ Len(textChunks) = 0

\* handleGenerateAudio, from the click to its first await.  The button is
\* disabled while isGenerating; for a blank text and for an empty chunk list
\* the checks of the handler itself decide.
StartRun ==
    /\ runs < MaxRuns
    /\ ~GenerateBusy
    /\ ConfigError(text, selectedVoice, textChunks) = ""
    /\ LET r == [isPaused |-> isPaused, textChunks |-> textChunks,
                 batchProgress |-> batchProgress,
                 selectedProvider |-> selectedProvider,
                 selectedVoice |-> selectedVoice,
                 batchIndex |-> 0, phase |-> "none", i |-> 0]
           bp == << [totalBatches |-> TotalBatches(textChunks),
                     completedBatches |-> 0,
                     currentBatch |-> 1,
                     totalChunks |-> Len(textChunks),
                     completedChunks |-> 0,
                     failedChunks |-> 0] >>
           iss == [c \in {textChunks[k].index : k \in 1..Len(textChunks)} |-> 0]
           kind == LoopTop(r, 0)
       IN  /\ Continue(kind, r, 0, InitialAudioChunks(textChunks), bp, iss)
           /\ message' = MessageAfter(kind, r, 0, "Starting batch processing")
           /\ IF kind = "finish"
              THEN TRUE
              ELSE isGenerating' = TRUE /\ isPaused' = FALSE
    /\ runs' = runs + 1
    /\ UNCHANGED <<chunker, route, archive, variant, text, selectedProvider, selectedVoice, textChunks>>

\* handleGenerateAudio when one of its three checks fails: the error banner,
\* then return.  (The Generate button is disabled for a blank text and for an
\* empty chunk list; the handler repeats the checks itself.)
RejectRun ==
    /\ ConfigError(text, selectedVoice, textChunks) # ""
    /\ message' = ConfigError(text, selectedVoice, textChunks)
    /\ UNCHANGED <<chunker, route, arrivals, archive, variant, text, selectedProvider, selectedVoice, isGenerating, isPaused,
                   textChunks, audioChunks, batchProgress, delayCountdown, summary,
                   run, calls, issued, runs>>

\* the click handler of the Generate button
handleGenerateAudio == RejectRun \/ StartRun

\* one generation request of the batch in flight ends with outcome o
\* (the history variable arrivals is left to the specification, which either
\* records the settlement or ignores it)
SettleCall(k, o) ==
    /\ run.phase = "inflight"
    /\ k \in 1..Len(calls)
    /\ calls[k] = "inflight"
    /\ o = "empty" => run.selectedProvider = "elevenlabs"
    /\ calls' = [calls EXCEPT ![k] = o]
    /\ UNCHANGED <<chunker, route, archive, variant, text, selectedProvider, selectedVoice, isGenerating, isPaused,
                   textChunks, audioChunks, batchProgress, delayCountdown, summary,
                   message, run, issued, runs>>

\* all requests of the batch have ended: processBatch returns, the results are
\* folded into audioChunks and batchProgress, and the loop goes on
BatchSettled ==
    /\ run.phase = "inflight"
    /\ \A k \in 1..Len(calls) : calls[k] # "inflight"
    /\ LET b == run.batchIndex
           batchChunks == BatchChunks(run.textChunks, b)
           results == processBatch(batchChunks, run.selectedProvider,
                                   run.selectedVoice, calls)
       IN  Continue(AfterBatch(run, b), run,
                    IF AfterBatch(run, b) = "delay" /\ variant = "batchRoute" THEN b ELSE b + 1,
                    UpdateWithResults(audioChunks, results),
                    ProgressAfterBatch(batchProgress, b, results),
                    issued)
    /\ message' = MessageAfter(AfterBatch(run, run.batchIndex), run,
                               run.batchIndex + 1, message)
    /\ IF AfterBatch(run, run.batchIndex) = "finish"
       THEN TRUE
       ELSE UNCHANGED <<isGenerating, isPaused>>
    /\ UNCHANGED <<chunker, route, archive, variant, text, selectedProvider, selectedVoice, textChunks, runs>>

\* batchRoute build: the request to /api/generate-audio-batch fails as a whole
\* (fetch rejects or the response is not OK); processBatch throws
BatchThrows ==
    /\ variant = "batchRoute"
    /\ run.phase = "inflight"
    /\ \A k \in 1..Len(calls) : calls[k] # "inflight"
    /\ LET b == run.batchIndex
           batchChunks == BatchChunks(run.textChunks, b)
       IN  Continue(AfterBatch(run, b), run,
                    IF AfterBatch(run, b) = "delay" THEN b ELSE b + 1,
                    MarkBatchFailed(audioChunks, batchChunks, "Batch processing failed"),
                    ProgressAfterFailedBatch(batchProgress, b, batchChunks),
                    issued)
    /\ message' = MessageAfter(AfterBatch(run, run.batchIndex), run,
                               run.batchIndex + 1, message)
    /\ IF AfterBatch(run, run.batchIndex) = "finish"
       THEN TRUE
       ELSE UNCHANGED <<isGenerating, isPaused>>
    /\ UNCHANGED <<chunker, route, archive, variant, text, selectedProvider, selectedVoice, textChunks, runs>>

\* a timeout of the inter-batch wait fires
DelayTick ==
    /\ run.phase = "delay"
    /\ IF variant = "perChunk"
       THEN \* for (let i = delaySeconds; i > 0; i--) { if (isPaused) ...; await 1 s }
            IF run.i - 1 > 0 /\ ~run.isPaused
            THEN /\ delayCountdown' = run.i - 1
                 /\ run' = [run EXCEPT !.i = run.i - 1]
                 /\ message' = "Waiting before next batch"
                 /\ UNCHANGED <<audioChunks, batchProgress, issued, calls, arrivals, summary,
                                isGenerating, isPaused>>
            ELSE \* setDelayCountdown(0); if (isPaused) break; else send the batch
                 LET kind == IF run.isPaused THEN "finish" ELSE "send" IN
                 /\ Continue(kind, run, run.batchIndex, audioChunks, batchProgress, issued)
                 /\ message' = IF kind = "finish"
                               THEN MessageAfter(kind, run, TotalBatches(run.textChunks),
                                                 "Generation paused during delay")
                               ELSE message
                 /\ IF kind = "finish"
                    THEN TRUE
                    ELSE delayCountdown' = 0 /\ UNCHANGED <<isGenerating, isPaused>>
       ELSE \* the 3 second timeout ends the iteration; batchIndex++
            LET kind == LoopTop(run, run.batchIndex + 1) IN
            /\ Continue(kind, run, run.batchIndex + 1, audioChunks, batchProgress, issued)
            /\ message' = MessageAfter(kind, run, run.batchIndex + 1, message)
            /\ IF kind = "finish"
               THEN TRUE
               ELSE UNCHANGED <<isGenerating, isPaused>>
    /\ UNCHANGED <<chunker, route, archive, variant, text, selectedProvider, selectedVoice, textChunks, runs>>

-----------------------------------------------------------------------------
(* User events *)

\* the Pause / Resume button, rendered only while isGenerating
handlePauseResume ==
    /\ isGenerating
    /\ isPaused' = ~isPaused
    /\ message' = IF ~isPaused THEN "Generation paused" ELSE "Generation resumed"
    /\ UNCHANGED <<chunker, route, arrivals, archive, variant, text, selectedProvider, selectedVoice, isGenerating,
                   textChunks, audioChunks, batchProgress, delayCountdown, summary,
                   run, calls, issued, runs>>

\* mutant: the new chunks are appended to the chunks of the previous text
TextChanged_Merge(newText) ==
    /\ text' = newText
    /\ textChunks' = IF Trim(newText) # <<>>
                     THEN textChunks \o chunkText(Trim(newText), ProviderChunkSize(selectedProvider))
                     ELSE <<>>
    /\ audioChunks' = <<>>

\* mutant: the job list is kept when the text changes
TextChanged_KeepJobs(newText) ==
    /\ text' = newText
    /\ textChunks' = IF Trim(newText) # <<>>
                     THEN chunkText(Trim(newText), ProviderChunkSize(selectedProvider))
                     ELSE <<>>
    /\ UNCHANGED audioChunks

\* the setters of handleTextChange: setText, setTextChunks, setAudioChunks([])
TextChanged(newText) ==
    /\ text' = newText
    /\ textChunks' = IF Trim(newText) # <<>>
                     THEN chunkText(Trim(newText), ProviderChunkSize(selectedProvider))
                     ELSE <<>>
    /\ audioChunks' = <<>>

handleTextChange(newText) ==
    /\ TextChanged(newText)
    /\ UNCHANGED <<chunker, route, arrivals, archive, variant, selectedProvider, selectedVoice, isGenerating, isPaused,
                   batchProgress, delayCountdown, summary, message, run, calls, issued,
                   runs>>

\* maxLength={50000} of the textarea; scaled down.
textareaMaxLength == 7

\* e.target.value after the user typed or pasted t into the textarea: the
\* browser keeps at most maxLength characters
TextareaValue(t) == Substring(t, 0, Min(Len(t), textareaMaxLength))

\* onChange={(e) => handleTextChange(e.target.value)}
TextareaChange(t) == handleTextChange(TextareaValue(t))

\* processFile once mammoth.extractRawText has returned result.value = value
\* for a .docx file.  (handleTextChange runs in the closure of the render in
\* which the upload began; the provider it reads there selects the same
\* chunkSize as any other.)
processFile(value) ==
    /\ IF value # <<>>
       THEN /\ TextChanged(Trim(value))
            /\ message' = "Successfully extracted"
       ELSE /\ message' = "No text found in the DOCX file"
            /\ UNCHANGED <<text, textChunks, audioChunks>>
    /\ UNCHANGED <<chunker, route, arrivals, archive, variant, selectedProvider, selectedVoice, isGenerating, isPaused,
                   batchProgress, delayCountdown, summary, run, calls, issued, runs>>

handleProviderChange(provider) ==
    /\ selectedProvider' = provider
    /\ selectedVoice' = FirstVoice(provider)
    /\ textChunks' = IF Trim(text) # <<>>
                     THEN chunkText(Trim(text), ProviderChunkSize(provider))
                     ELSE textChunks
    /\ UNCHANGED <<chunker, route, arrivals, archive, variant, text, isGenerating, isPaused, audioChunks, batchProgress,
                   delayCountdown, summary, message, run, calls, issued, runs>>

-----------------------------------------------------------------------------
(* ZIP export *)

\* padStart(3, '0'): the width of the number prefix; scaled down.
padWidth == 1

\* String(n) writes n in decimal; the radix is scaled down with the width.
radix == 3

\* character codes of the entry name prefix: '0' is 48, '_' is 95
DigitCode(d) == 48 + d

UnderscoreCode == 95

\* String(n) for n >= 0, as character codes
RECURSIVE NumberToString(_)
NumberToString(n) ==
    IF n < radix THEN << DigitCode(n) >>
    ELSE Append(NumberToString(n \div radix), DigitCode(n % radix))

\* String.prototype.padStart(width, '0')
PadStart(str, width) ==
    IF Len(str) >= width THEN str
    ELSE [k \in 1..(width - Len(str)) |-> DigitCode(0)] \o str

\* mutant: every job is exported, whatever its status
CompletedChunks_All(ac) == ac

\* audioChunks.filter(chunk => chunk.status === 'completed')
CompletedChunks(ac) == SelectSeq(ac, LAMBDA chunk : chunk.status = "completed")

\* `${paddedIndex}_${chunk.filename}`: the prefix up to and including the
\* underscore as character codes, then the filename
ZipEntry(chunk) ==
    [prefix |-> Append(PadStart(NumberToString(chunk.chunkIndex + 1), padWidth),
                       UnderscoreCode),
     filename |-> chunk.filename,
     chunkIndex |-> chunk.chunkIndex]

\* the for loop over completedChunks: one zip.file per chunk whose audio could
\* be read; a chunk whose fetch throws is logged and skipped.  The perChunk
\* build decodes the data URL in place of fetching it.
ZipEntries(completedChunks, fetched) ==
    LET added == SelectSeq(completedChunks,
                           LAMBDA chunk : variant = "perChunk" \/ chunk.chunkIndex \in fetched)
    IN  [k \in 1..Len(added) |-> ZipEntry(added[k])]

\* the click handler of the Download All button; fetched is the set of chunk
\* indices whose audio URL can be fetched
handleDownloadAllAsZip(fetched) ==
    /\ LET completedChunks == CompletedChunks(audioChunks) IN
       IF Len(completedChunks) = 0
       THEN /\ message' = "No completed audio chunks to download"
            /\ UNCHANGED archive
       ELSE /\ archive' = << ZipEntries(completedChunks, fetched) >>
            /\ message' = "Downloaded audio files as ZIP"
    /\ UNCHANGED <<chunker, route, arrivals, variant, text, selectedProvider, selectedVoice, isGenerating,
                   isPaused, textChunks, audioChunks, batchProgress, delayCountdown,
                   summary, run, calls, issued, runs>>

-----------------------------------------------------------------------------
(* Batch route: POST /api/generate-audio-batch *)

\* values of the provider field of a request body
RouteProviders == {Undefined, "minimax", "elevenlabs", "openai"}

\* values of the voice and elevenLabsVoiceId fields of a request body
RouteVoices == {Undefined, "", "voice_id"}

\* an element of the chunks array: an object {index, text}, an object
\* without text, or null
RouteChunk(kind, index) ==
    [kind |-> kind, index |-> index, text |-> IF kind = "object" THEN <<"a">> ELSE <<>>]

\* no call of the route is being followed
NoRoute == [request |-> [chunks |-> [kind |-> "missing", items |-> <<>>],
                         provider |-> Undefined, voice |-> Undefined,
                         elevenLabsVoiceId |-> Undefined],
            pc |-> "none", calls |-> <<>>, arrivals |-> <<>>, response |-> <<>>]
\* (calls: the promises of chunkPromises by position; arrivals: history, the
\* positions of the promises in the order they settled)

\* JavaScript !x for the values of the string fields
Falsy(x) == x \in {Undefined, ""}

\* mutant: the provider-specific voice field is not checked
RouteValidationError_NoVoice(req) ==
    IF req.chunks.kind # "array" \/ Len(req.chunks.items) = 0
    THEN "Missing required field: chunks array"
    ELSE IF Falsy(req.provider) THEN "Missing required field: provider"
    ELSE IF req.provider \in {"minimax", "elevenlabs"} THEN ""
    ELSE "Unsupported provider"

\* the checks at the top of POST: the error of the 400 response, "" when the
\* request passes
RouteValidationError(req) ==
    IF req.chunks.kind # "array" \/ Len(req.chunks.items) = 0
    THEN "Missing required field: chunks array"
    ELSE IF Falsy(req.provider) THEN "Missing required field: provider"
    ELSE IF req.provider = "minimax"
         THEN (IF Falsy(req.voice) THEN "Missing required field 'voice' for MiniMax" ELSE "")
    ELSE IF req.provider = "elevenlabs"
         THEN (IF Falsy(req.elevenLabsVoiceId)
               THEN "Missing required field 'elevenLabsVoiceId' for ElevenLabs" ELSE "")
    ELSE "Unsupported provider"

\* NextResponse.json({ error }, { status })
ErrorResponse(status, error) ==
    [status |-> status, error |-> error, totalChunks |-> 0, successfulChunks |-> 0,
     failedChunks |-> 0, results |-> <<>>, errors |-> <<>>, hasErrors |-> FALSE]

\* the state of the promise of chunkPromises made for one element of the
\* array, when the map has run up to the first await of each callback: a fetch
\* in flight for an object with text; for an object without text the
\* TypeError of chunk.text.length is caught and the promise is fulfilled with
\* a failed result; for null the catch block throws again at chunk.index and
\* the promise is rejected
PromiseAtStart(chunk) ==
    CASE chunk.kind = "object" -> "inflight"
      [] chunk.kind = "noText" -> "typeError"
      [] chunk.kind = "null" -> "rejected"

\* the voice a chunk request carries for the provider
RouteVoice(req) == IF req.provider = "minimax" THEN req.voice ELSE req.elevenLabsVoiceId

\* the ChunkResult a fulfilled promise of chunkPromises holds
RouteChunkResult(req, chunk, o) ==
    IF o = "typeError"
    THEN [chunkIndex |-> chunk.index, success |-> FALSE, audioUrl |-> Undefined,
          duration |-> 0, filename |-> <<>>, error |-> "Cannot read properties of undefined"]
    ELSE ChunkResult(chunk, req.provider, RouteVoice(req), o)

\* mutant: the results are listed in the order in which the promises settled
BatchResults_ArrivalOrder(req, settled) ==
    [k \in 1..Len(req.chunks.items) |->
        RouteChunkResult(req, req.chunks.items[route.arrivals[k]], settled[route.arrivals[k]])]

\* batchResults after results.forEach, when every promise was fulfilled
BatchResults(req, settled) ==
    [k \in 1..Len(req.chunks.items) |->
        RouteChunkResult(req, req.chunks.items[k], settled[k])]

\* errors after results.forEach: one ChunkError per failed result, in order
ChunkErrors(batchResults) ==
    LET failed == SelectSeq(batchResults, LAMBDA r : ~r.success)
    IN  [k \in 1..Len(failed) |->
            [chunkIndex |-> failed[k].chunkIndex, error |-> failed[k].error]]

\* the body of the 200 response (errors is undefined when the list is empty)
SuccessResponse(req, batchResults) ==
    [status |-> 200, error |-> Undefined,
     totalChunks |-> Len(req.chunks.items),
     successfulChunks |-> Len(SelectSeq(batchResults, LAMBDA r : r.success)),
     failedChunks |-> Len(SelectSeq(batchResults, LAMBDA r : ~r.success)),
     results |-> batchResults,
     errors |-> ChunkErrors(batchResults),
     hasErrors |-> Len(ChunkErrors(batchResults)) > 0]

\* POST from the arrival of the request to its first await: a 400 response,
\* or the fan-out of one promise per element of the chunks array
RouteReceive ==
    /\ route.pc = "received"
    /\ route' =
         IF RouteValidationError(route.request) # ""
         THEN [route EXCEPT
                 !.response = << ErrorResponse(400, RouteValidationError(route.request)) >>,
                 !.pc = "done"]
         ELSE [route EXCEPT
                 !.calls = [k \in 1..Len(route.request.chunks.items) |->
                               PromiseAtStart(route.request.chunks.items[k])],
                 !.arrivals = SelectSeq([k \in 1..Len(route.request.chunks.items) |-> k],
                                        LAMBDA k : PromiseAtStart(route.request.chunks.items[k])
                                                      # "inflight"),
                 !.pc = "fanout"]
    /\ UNCHANGED <<pageVars_NoRoute, chunker>>

\* the fetch of one chunk to /api/generate-audio-comprehensive ends
RouteSettle(k, o) ==
    /\ route.pc = "fanout"
    /\ k \in 1..Len(route.calls)
    /\ route.calls[k] = "inflight"
    /\ route' = [route EXCEPT !.calls[k] = o, !.arrivals = Append(@, k)]
    /\ UNCHANGED <<pageVars_NoRoute, chunker>>

\* Promise.allSettled resolves: the results are collected and the response is
\* sent; a rejected promise makes results.forEach throw at chunks[index].index
\* (the element is null), which the outer catch answers with status 500
RouteRespond ==
    /\ route.pc = "fanout"
    /\ \A k \in 1..Len(route.calls) : route.calls[k] # "inflight"
    /\ route' =
         [route EXCEPT
            !.response =
               IF \E k \in 1..Len(route.calls) : route.calls[k] = "rejected"
               THEN << ErrorResponse(500, "Batch processing failed") >>
               ELSE << SuccessResponse(route.request,
                                       BatchResults(route.request, route.calls)) >>,
            !.pc = "done"]
    /\ UNCHANGED <<pageVars_NoRoute, chunker>>

-----------------------------------------------------------------------------
(* Specification *)

Init ==
    /\ variant \in {"perChunk", "batchRoute"}
    /\ text = <<>>
    /\ selectedProvider = "minimax"
    /\ selectedVoice = "English_radiant_girl"
    /\ isGenerating = FALSE
    /\ isPaused = FALSE
    /\ textChunks = <<>>
    /\ audioChunks = <<>>
    /\ batchProgress = <<>>
    /\ delayCountdown = 0
    /\ summary = <<>>
    /\ message = ""
    /\ run = NoRun
    /\ calls = <<>>
    /\ arrivals = <<>>
    /\ issued = <<>>
    /\ runs = 0
    /\ chunker = NoCall
    /\ archive = <<>>
    /\ route = NoRoute

Next ==
    \/ handleGenerateAudio
    \/ \E k \in 1..MaxChunks, o \in Outcomes : SettleCall(k, o) /\ UNCHANGED arrivals
    \/ BatchSettled
    \/ BatchThrows
    \/ DelayTick
    \/ handlePauseResume
    \/ \E newText \in Texts : handleTextChange(newText)
    \/ \E provider \in Providers : handleProviderChange(provider)

Spec == Init /\ [][Next]_vars

\* the page with every way a generation request can end
ArtifactNext ==
    \/ handleGenerateAudio
    \/ \E k \in 1..MaxChunks, o \in AllOutcomes : SettleCall(k, o) /\ UNCHANGED arrivals
    \/ BatchSettled
    \/ BatchThrows
    \/ DelayTick
    \/ handlePauseResume
    \/ \E newText \in Texts : handleTextChange(newText)
    \/ \E provider \in Providers : handleProviderChange(provider)

ArtifactSpec == Init /\ [][ArtifactNext]_vars

\* the page when no pause is requested, every request settles, the promise
\* continuations run and the timers fire
LiveNext ==
    \/ handleGenerateAudio
    \/ \E k \in 1..MaxChunks, o \in Outcomes : SettleCall(k, o) /\ UNCHANGED arrivals
    \/ BatchSettled
    \/ BatchThrows
    \/ DelayTick
    \/ \E newText \in Texts : handleTextChange(newText)
    \/ \E provider \in Providers : handleProviderChange(provider)

LiveSpec ==
    /\ Init
    /\ [][LiveNext]_vars
    /\ WF_vars(\E k \in 1..MaxChunks, o \in Outcomes : SettleCall(k, o) /\ UNCHANGED arrivals)
    /\ WF_vars(BatchSettled \/ BatchThrows)
    /\ WF_vars(DelayTick)

-----------------------------------------------------------------------------
(* Specification of a run observed with the order in which its requests settle *)

\* the idle page after a text was typed and a provider chosen
OrderInit ==
    /\ variant \in {"perChunk", "batchRoute"}
    /\ selectedProvider \in Providers
    /\ selectedVoice = FirstVoice(selectedProvider)
    /\ text \in Texts
    /\ textChunks = IF Trim(text) # <<>>
                    THEN chunkText(Trim(text), ProviderChunkSize(selectedProvider))
                    ELSE <<>>
    /\ audioChunks = <<>>
    /\ isGenerating = FALSE
    /\ isPaused = FALSE
    /\ batchProgress = <<>>
    /\ delayCountdown = 0
    /\ summary = <<>>
    /\ message = ""
    /\ run = NoRun
    /\ calls = <<>>
    /\ arrivals = <<>>
    /\ issued = <<>>
    /\ runs = 0
    /\ chunker = NoCall
    /\ archive = <<>>
    /\ route = NoRoute

\* the requests of a batch settle in any order; the order is recorded
OrderNext ==
    \/ handleGenerateAudio
    \/ \E k \in 1..MaxChunks, o \in Outcomes :
          SettleCall(k, o) /\ arrivals' = Append(arrivals, k)
    \/ BatchSettled
    \/ BatchThrows
    \/ DelayTick

OrderSpec == OrderInit /\ [][OrderNext]_vars

-----------------------------------------------------------------------------
(* Specification of the page with the ways a text enters it *)

\* a text one character longer than the textarea accepts
OverlongText ==
    [k \in 1..(textareaMaxLength + 1) |->
        IF ((k - 1) \div chunkSize) % 2 = 0 THEN "a" ELSE "b"]

\* what the user types or pastes
TypedTexts == Texts \cup {OverlongText}

\* result.value of the uploaded documents: no text, white space only, a
\* short text between white space, and a text longer than the textarea accepts
DocxValues ==
    { <<>>, <<" ">>, <<" ">> \o Rep(chunkSize - 1, "a") \o <<"\n">>, OverlongText }

EntryNext ==
    \/ \E t \in TypedTexts : TextareaChange(t)
    \/ \E value \in DocxValues : processFile(value)
    \/ \E provider \in Providers : handleProviderChange(provider)
    \/ handleGenerateAudio
    \/ \E k \in 1..MaxChunks, o \in {"ok", "httpError"} :
          SettleCall(k, o) /\ UNCHANGED arrivals
    \/ BatchSettled
    \/ BatchThrows
    \/ DelayTick

EntrySpec == Init /\ [][EntryNext]_vars

-----------------------------------------------------------------------------
(* Specification of the batch route as a function of the request it receives *)

\* longest chunks array of a request
MaxRequestChunks == 2

\* elements of the chunks array
RouteChunks ==
    {RouteChunk("null", 0)}
    \cup {RouteChunk(kind, index) :
            kind \in {"object", "noText"}, index \in 0..(MaxRequestChunks - 1)}

\* values of the chunks field: missing, not an array, or an array
RouteChunkFields ==
    {[kind |-> kind, items |-> <<>>] : kind \in {"missing", "notArray"}}
    \cup {[kind |-> "array", items |-> items] :
            items \in UNION {[1..n -> RouteChunks] : n \in 0..MaxRequestChunks}}

RouteRequests ==
    [chunks : RouteChunkFields, provider : RouteProviders,
     voice : RouteVoices, elevenLabsVoiceId : RouteVoices]

RouteInit ==
    /\ variant = "batchRoute"
    /\ text = <<>>
    /\ selectedProvider = "minimax"
    /\ selectedVoice = "English_radiant_girl"
    /\ isGenerating = FALSE
    /\ isPaused = FALSE
    /\ textChunks = <<>>
    /\ audioChunks = <<>>
    /\ batchProgress = <<>>
    /\ delayCountdown = 0
    /\ summary = <<>>
    /\ message = ""
    /\ run = NoRun
    /\ calls = <<>>
    /\ arrivals = <<>>
    /\ issued = <<>>
    /\ runs = 0
    /\ chunker = NoCall
    /\ archive = <<>>
    /\ \E req \in RouteRequests :
          route = [NoRoute EXCEPT !.request = req, !.pc = "received"]

RouteNext ==
    \/ RouteReceive
    \/ \E k \in 1..MaxRequestChunks, o \in Outcomes : RouteSettle(k, o)
    \/ RouteRespond

RouteSpec == RouteInit /\ [][RouteNext]_vars

-----------------------------------------------------------------------------
(* Specification of chunkText as a function of its arguments *)

\* longest argument text
MaxTextLen == 6

\* largest maxLength argument
MaxMaxLength == 3

\* characters of the argument texts: a letter, a sentence terminator, a space
\* and a line break
Alphabet == {"a", ".", " ", "\n"}

ArgTexts == UNION {[1..n -> Alphabet] : n \in 0..MaxTextLen}

\* the example text of the chunker's description
HelloText ==
    << "H","e","l","l","o"," ","w","o","r","l","d","."," ",
       "T","h","i","s"," ","i","s"," ","a"," ","t","e","s","t","."," ",
       "A","n","o","t","h","e","r"," ","s","e","n","t","e","n","c","e"," ",
       "h","e","r","e","." >>

ChunkInit ==
    /\ variant = "perChunk"
    /\ text = <<>>
    /\ selectedProvider = "minimax"
    /\ selectedVoice = "English_radiant_girl"
    /\ isGenerating = FALSE
    /\ isPaused = FALSE
    /\ textChunks = <<>>
    /\ audioChunks = <<>>
    /\ batchProgress = <<>>
    /\ delayCountdown = 0
    /\ summary = <<>>
    /\ message = ""
    /\ run = NoRun
    /\ calls = <<>>
    /\ arrivals = <<>>
    /\ issued = <<>>
    /\ runs = 0
    /\ archive = <<>>
    /\ route = NoRoute
    /\ \E t \in ArgTexts \cup {HelloText}, m \in 1..MaxMaxLength \cup {25} :
          /\ (t = HelloText) <=> (m = 25)
          /\ chunker = [NoCall EXCEPT !.text = t, !.maxLength = m, !.pc = "call"]

ChunkNext == ChunkerEnter \/ ChunkerIterate

ChunkSpec == ChunkInit /\ [][ChunkNext]_vars

-----------------------------------------------------------------------------
(* Specification of the export, started from the job lists a run leaves *)

\* the job list after `folded` batches of a run over tc have settled with the
\* given outcome per chunk position
RECURSIVE JobsAfter(_, _, _, _, _)
JobsAfter(tc, provider, voice, outcome, folded) ==
    IF folded = 0 THEN InitialAudioChunks(tc)
    ELSE LET b == folded - 1
             batchChunks == BatchChunks(tc, b)
             settled == [k \in 1..Len(batchChunks) |-> outcome[b * batchSize + k]]
         IN  UpdateWithResults(
                 MarkGenerating(JobsAfter(tc, provider, voice, outcome, b), batchChunks),
                 processBatch(batchChunks, provider, voice, settled))

\* the job lists of a run over tc: while a batch is in flight, during a wait
\* between two batches, and after the last batch
JobLists(tc, provider, voice) ==
    UNION {
        {JobsAfter(tc, provider, voice, outcome, folded) :
            folded \in 1..TotalBatches(tc)}
        \cup
        {MarkGenerating(JobsAfter(tc, provider, voice, outcome, folded),
                        BatchChunks(tc, folded)) :
            folded \in 0..(TotalBatches(tc) - 1)}
        : outcome \in [1..Len(tc) -> Outcomes] }

ExportInit ==
    /\ variant \in {"perChunk", "batchRoute"}
    /\ selectedProvider \in Providers
    /\ selectedVoice = FirstVoice(selectedProvider)
    /\ text \in {t \in Texts : Trim(t) # <<>>}
    /\ textChunks = chunkText(Trim(text), ProviderChunkSize(selectedProvider))
    /\ audioChunks \in JobLists(textChunks, selectedProvider, selectedVoice) \cup {<<>>}
    /\ isGenerating = FALSE
    /\ isPaused = FALSE
    /\ batchProgress = <<>>
    /\ delayCountdown = 0
    /\ summary = <<>>
    /\ message = ""
    /\ run = NoRun
    /\ calls = <<>>
    /\ arrivals = <<>>
    /\ issued = <<>>
    /\ runs = 0
    /\ chunker = NoCall
    /\ archive = <<>>
    /\ route = NoRoute

ExportNext ==
    \E fetched \in SUBSET (0..(MaxChunks - 1)) : handleDownloadAllAsZip(fetched)

ExportSpec == ExportInit /\ [][ExportNext]_vars

-----------------------------------------------------------------------------
(* Vocabulary of the properties *)

Terminal == {"completed", "failed"}

\* 0-based batch a chunk index belongs to (chunk indices are the 0-based
\* positions in the chunk list)
BatchOf(chunkIndex) == chunkIndex \div batchSize

JobIndexes(ac) == {ac[j].chunkIndex : j \in 1..Len(ac)}

\* status of the job with the given chunk index
StatusOf(ac, chunkIndex) ==
    ac[CHOOSE j \in 1..Len(ac) : ac[j].chunkIndex = chunkIndex].status

\* chunk indices whose request is in flight
InFlight ==
    IF run.phase = "inflight"
    THEN {BatchChunks(run.textChunks, run.batchIndex)[k].index :
             k \in {n \in 1..Len(calls) : calls[n] = "inflight"}}
    ELSE {}

\* no job leaves pending in the step
PendingStaysPending ==
    \A c \in JobIndexes(audioChunks) \cap JobIndexes(audioChunks') :
        StatusOf(audioChunks, c) = "pending" => StatusOf(audioChunks', c) = "pending"

\* state of the overall run as the page shows it
RunState ==
    IF isGenerating THEN (IF isPaused THEN "Paused" ELSE "Running")
    ELSE IF batchProgress = <<>> THEN "Idle" ELSE "Completed"

-----------------------------------------------------------------------------
(* Properties *)

\* C1: when a batch settles, each job of the batch takes the outcome of its own
\* request: failed with that request's error message if it failed, completed
\* if it succeeded, whatever happened to its siblings; jobs of other batches
\* are untouched, and if batches remain the run goes on to the next one.
C1_BatchIsolation ==
    [][BatchSettled =>
        LET b == run.batchIndex
            batchChunks == BatchChunks(run.textChunks, b)
        IN  /\ \A k \in 1..Len(batchChunks) :
                 batchChunks[k].index \in JobIndexes(audioChunks) =>
                    /\ batchChunks[k].index \in JobIndexes(audioChunks')
                    /\ LET j == CHOOSE n \in 1..Len(audioChunks') :
                                   audioChunks'[n].chunkIndex = batchChunks[k].index
                       IN  IF calls[k] = "ok"
                           THEN audioChunks'[j].status = "completed"
                           ELSE /\ audioChunks'[j].status = "failed"
                                /\ audioChunks'[j].error = ErrorMessage(calls[k])
            /\ \A j \in 1..Len(audioChunks) :
                 ~InBatch(batchChunks, audioChunks[j].chunkIndex) =>
                    audioChunks'[j] = audioChunks[j]
            /\ b + 1 < TotalBatches(run.textChunks) =>
                 /\ isGenerating'
                 /\ run'.phase \in {"delay", "inflight"}
                 /\ run'.textChunks = run.textChunks
    ]_vars

\* C1 witness: a batch has settled with one job failed and a sibling completed,
\* and the run has gone on to a later batch.
C1_Witness ==
    /\ isGenerating
    /\ run.phase = "inflight"
    /\ \E c, d \in JobIndexes(audioChunks) :
          /\ BatchOf(c) = BatchOf(d)
          /\ BatchOf(c) < run.batchIndex
          /\ StatusOf(audioChunks, c) = "failed"
          /\ StatusOf(audioChunks, d) = "completed"

\* C2: while the pause flag is set no batch is sent: no generation request is
\* issued and no pending job leaves pending.
C2_PauseStopsAtBoundary ==
    [][(isGenerating /\ isPaused) => (issued' = issued /\ PendingStaysPending)]_vars

\* C3: a run paused at a batch boundary stays where it is until it is resumed
\* (BatchProgress does not move while the pause flag is set and no request is
\* in flight), and completedBatches only ever advances by one batch at a time.
C3_PauseResume ==
    [][/\ (isGenerating /\ isPaused /\ run.phase # "inflight") =>
             (batchProgress' = batchProgress /\ isGenerating')
       /\ (isGenerating /\ batchProgress # <<>> /\ batchProgress' # batchProgress) =>
             /\ batchProgress' # <<>>
             /\ batchProgress'[1].completedBatches - batchProgress[1].completedBatches \in {0, 1}
    ]_vars

\* C4: a step taken during the inter-batch wait while the pause flag is set
\* does not send the batch: the wait is not followed by requests in flight and
\* no job changes status.
C4_PauseDuringDelay ==
    [][(run.phase = "delay" /\ isPaused) =>
          /\ run'.phase # "inflight"
          /\ \A c \in JobIndexes(audioChunks) \cap JobIndexes(audioChunks') :
                StatusOf(audioChunks', c) = StatusOf(audioChunks, c)
    ]_vars

\* C5: the run state changes only along Idle -> Running, Running -> Paused,
\* Running -> Completed, Paused -> Running (and Completed -> Running for a new
\* run); and while the run is paused no recorded job result is discarded.
C5_RunStateMachine ==
    [][/\ <<RunState, RunState'>> \in
            {<<"Idle", "Idle">>, <<"Running", "Running">>, <<"Paused", "Paused">>,
             <<"Completed", "Completed">>,
             <<"Idle", "Running">>, <<"Running", "Paused">>, <<"Running", "Completed">>,
             <<"Paused", "Running">>, <<"Completed", "Running">>}
       /\ RunState = "Paused" =>
            \A c \in JobIndexes(audioChunks) :
                StatusOf(audioChunks, c) \in Terminal =>
                    /\ c \in JobIndexes(audioChunks')
                    /\ StatusOf(audioChunks', c) = StatusOf(audioChunks, c)
    ]_vars

\* C6: in every state completedChunks + failedChunks <= totalChunks, and no
\* step of a run decreases completedChunks or failedChunks.
C6_MonotonicProgress ==
    /\ [](batchProgress # <<>> =>
            batchProgress[1].completedChunks + batchProgress[1].failedChunks
                <= batchProgress[1].totalChunks)
    /\ [][(isGenerating /\ batchProgress # <<>>) =>
            /\ batchProgress' # <<>>
            /\ batchProgress'[1].completedChunks >= batchProgress[1].completedChunks
            /\ batchProgress'[1].failedChunks >= batchProgress[1].failedChunks
            /\ batchProgress'[1].totalChunks = batchProgress[1].totalChunks
       ]_vars

\* C6 witness: two batches have been folded, with successes and failures counted.
C6_Witness ==
    /\ batchProgress # <<>>
    /\ batchProgress[1].completedBatches >= 2
    /\ batchProgress[1].completedChunks > 0
    /\ batchProgress[1].failedChunks > 0

\* C7: completedChunks + failedChunks never exceeds the number of jobs whose
\* status is completed or failed.
C7_CountersConsistent ==
    batchProgress # <<>> =>
        batchProgress[1].completedChunks + batchProgress[1].failedChunks
            <= Cardinality({j \in 1..Len(audioChunks) : audioChunks[j].status \in Terminal})

\* C8: if a chunk of some batch has had its request issued or its job marked
\* generating, every chunk of every earlier batch has been issued, is no
\* longer in flight, its batch is counted in completedBatches and its job
\* (if still listed) is completed or failed.
C8_BatchesSequential ==
    \A c \in DOMAIN issued :
        (\/ issued[c] > 0
         \/ (isGenerating /\ c \in JobIndexes(audioChunks)
                          /\ StatusOf(audioChunks, c) = "generating")) =>
            \A d \in DOMAIN issued :
                BatchOf(d) < BatchOf(c) =>
                    /\ issued[d] > 0
                    /\ d \notin InFlight
                    /\ batchProgress # <<>>
                    /\ batchProgress[1].completedBatches > BatchOf(d)
                    /\ (isGenerating /\ d \in JobIndexes(audioChunks)) =>
                           StatusOf(audioChunks, d) \in Terminal

\* C8 witness: requests of the second batch are in flight after the first
\* batch has been folded.
C8_Witness ==
    /\ run.phase = "inflight"
    /\ run.batchIndex = 1
    /\ InFlight # {}
    /\ \E d \in JobIndexes(audioChunks) :
          BatchOf(d) = 0 /\ StatusOf(audioChunks, d) \in Terminal

\* C9: in a step of a run a job keeps its status or moves pending -> generating,
\* generating -> completed or generating -> failed.
C9_JobStatusMachine ==
    [][isGenerating =>
          \A c \in JobIndexes(audioChunks) \cap JobIndexes(audioChunks') :
              \/ StatusOf(audioChunks', c) = StatusOf(audioChunks, c)
              \/ <<StatusOf(audioChunks, c), StatusOf(audioChunks', c)>> \in
                    {<<"pending", "generating">>, <<"generating", "completed">>,
                     <<"generating", "failed">>}
    ]_vars

\* C9 witness: a later batch is being generated while jobs of an earlier batch
\* rest in completed and in failed.
C9_Witness ==
    /\ isGenerating
    /\ \E c, d, e \in JobIndexes(audioChunks) :
          /\ StatusOf(audioChunks, c) = "completed"
          /\ StatusOf(audioChunks, d) = "failed"
          /\ StatusOf(audioChunks, e) = "generating"

\* C10: in one run the generation request of a chunk is issued at most once.
C10_NoRetry ==
    \A c \in DOMAIN issued : issued[c] <= 1

\* C10 witness: a run of several batches has ended with a failed chunk, every
\* chunk having been requested exactly once.
C10_Witness ==
    /\ ~isGenerating
    /\ batchProgress # <<>>
    /\ batchProgress[1].completedBatches = batchProgress[1].totalBatches
    /\ batchProgress[1].totalBatches >= 2
    /\ batchProgress[1].failedChunks > 0
    /\ \A c \in DOMAIN issued : issued[c] = 1

\* C11: when a run ends, the final summary is reported and its total, completed
\* and failed counts are the BatchProgress values of that run at loop end.
C11_FinalSummary ==
    [][(isGenerating /\ ~isGenerating') =>
          /\ batchProgress' # <<>>
          /\ summary' = << [totalChunks |-> batchProgress'[1].totalChunks,
                            completedChunks |-> batchProgress'[1].completedChunks,
                            failedChunks |-> batchProgress'[1].failedChunks] >>
    ]_vars

\* C12: a click on Generate with a blank text, no voice or an empty chunk list
\* leaves the job list, BatchProgress, the generating and paused flags and the
\* running closure as they are and issues no generation request.
C12_ConfigErrorRejected ==
    [][(handleGenerateAudio /\ (\/ Trim(text) = <<>>
                                \/ selectedVoice = ""
                                \/ Len(textChunks) = 0)) =>
          UNCHANGED <<audioChunks, batchProgress, isGenerating, isPaused,
                      issued, calls, run>>
    ]_vars

\* C12 witness: a click was rejected for a blank text after a run had ended,
\* and the BatchProgress of that run is still there.
C12_Witness ==
    /\ message = "Please enter some text to generate audio"
    /\ Trim(text) = <<>>
    /\ ~isGenerating
    /\ batchProgress # <<>>
    /\ batchProgress[1].completedBatches = batchProgress[1].totalBatches

\* C23: every job has an artifact (a non-empty audio reference and a filename)
\* exactly when it is completed and an error message exactly when it is failed.
C23_ArtifactIffCompleted ==
    \A k \in 1..Len(audioChunks) :
        /\ (audioChunks[k].status = "completed") <=>
              (audioChunks[k].audioUrl # "" /\ audioChunks[k].filename # <<>>)
        /\ (audioChunks[k].status = "completed") <=>
              (audioChunks[k].audioUrl # "" \/ audioChunks[k].filename # <<>>)
        /\ (audioChunks[k].status = "failed") <=> (audioChunks[k].error # Undefined)

\* C23 witness: a completed job, a failed job and a job not yet sent side by side.
C23_Witness ==
    \E i, j, k \in 1..Len(audioChunks) :
        /\ audioChunks[i].status = "completed" /\ audioChunks[i].filename # <<>>
        /\ audioChunks[j].status = "failed" /\ audioChunks[j].error # Undefined
        /\ audioChunks[k].status = "pending" /\ audioChunks[k].audioUrl = ""

C25_BatchException ==
    [][BatchThrows =>
        LET b == run.batchIndex
            batchChunks == BatchChunks(run.textChunks, b)
        IN  /\ \A j \in 1..Len(audioChunks) :
                 IF InBatch(batchChunks, audioChunks[j].chunkIndex)
                 THEN /\ audioChunks'[j].status = "failed"
                      /\ audioChunks'[j].error = "Batch processing failed"
                 ELSE audioChunks'[j] = audioChunks[j]
            /\ batchProgress'[1].failedChunks =
                  batchProgress[1].failedChunks + Len(batchChunks)
            /\ batchProgress'[1].completedChunks = batchProgress[1].completedChunks
            /\ batchProgress'[1].completedBatches = b + 1
            /\ b + 1 < TotalBatches(run.textChunks) =>
                  /\ isGenerating'
                  /\ run'.phase \in {"delay", "inflight"}
    ]_vars

\* C25 witness: the first batch failed as a whole and the second batch is in
\* flight.
C25_Witness ==
    /\ variant = "batchRoute"
    /\ run.phase = "inflight"
    /\ run.batchIndex = 1
    /\ batchProgress[1].failedChunks = batchSize
    /\ \E j \in 1..Len(audioChunks) :
          /\ audioChunks[j].status = "failed"
          /\ audioChunks[j].error = "Batch processing failed"

\* C27: a completed job carries audio: its result was not a 200 response
\* without audio.
C27_CompletedHasAudio ==
    \A k \in 1..Len(audioChunks) :
        audioChunks[k].status = "completed" =>
            audioChunks[k].audioUrl \notin {"", EmptyDataUrl}

\* the run is over and fully accounted for
RunAccounted ==
    /\ ~isGenerating
    /\ batchProgress # <<>>
    /\ batchProgress[1].completedBatches = batchProgress[1].totalBatches
    /\ batchProgress[1].completedChunks + batchProgress[1].failedChunks
          = batchProgress[1].totalChunks
    /\ \A k \in 1..Len(audioChunks) : audioChunks[k].status \in Terminal

\* C26: if every request settles and no pause is requested, a started run
\* eventually ends with every job completed or failed, completedBatches equal
\* to totalBatches and completedChunks + failedChunks equal to totalChunks.
C26_RunEnds == isGenerating ~> RunAccounted

\* C26 witness: a run of several batches has ended, all its jobs listed and
\* all of them completed or failed.
C26_Witness ==
    /\ RunAccounted
    /\ batchProgress[1].totalBatches >= 2
    /\ Len(audioChunks) = batchProgress[1].totalChunks

\* C28: a pause requested while a batch is in flight cancels nothing: the
\* click leaves the requests, the jobs and the closure alone, and when the
\* batch settles with the pause flag set every job of the batch is completed
\* or failed and BatchProgress counts every chunk of the batch.
C28_NoMidBatchPause ==
    [][/\ (handlePauseResume /\ run.phase = "inflight") =>
             (calls' = calls /\ run' = run /\ audioChunks' = audioChunks
                /\ batchProgress' = batchProgress /\ issued' = issued)
       /\ ((BatchSettled \/ BatchThrows) /\ isPaused) =>
             LET batchChunks == BatchChunks(run.textChunks, run.batchIndex) IN
             /\ \A j \in 1..Len(audioChunks) :
                   InBatch(batchChunks, audioChunks[j].chunkIndex) =>
                       audioChunks'[j].status \in Terminal
             /\ batchProgress'[1].completedChunks + batchProgress'[1].failedChunks
                   = batchProgress[1].completedChunks + batchProgress[1].failedChunks
                       + Len(batchChunks)
             /\ batchProgress'[1].completedBatches = run.batchIndex + 1
    ]_vars

\* C28 witness: the pause flag is set while a batch is in flight, one of its
\* requests has settled since and another is still running.
C28_Witness ==
    /\ isGenerating
    /\ isPaused
    /\ run.phase = "inflight"
    /\ \E j, k \in 1..Len(calls) : calls[j] = "inflight" /\ calls[k] \in Outcomes

\* C29: during a run totalBatches is ceil(totalChunks / batchSize) for the
\* chunks the run started with; batch b is the chunks at positions
\* [b * batchSize, min((b + 1) * batchSize, totalChunks)); every chunk is in
\* exactly one batch; every batch has 1..batchSize chunks; and a job is
\* generating only while its batch is the one in flight.
C29_Batching ==
    /\ run.phase # "none" =>
          LET tc == run.textChunks
              n == Len(tc)
              total == batchProgress[1].totalBatches
          IN  /\ batchProgress[1].totalChunks = n
              /\ total * batchSize >= n
              /\ (total - 1) * batchSize < n
              /\ \A b \in 0..(total - 1) :
                    /\ BatchChunks(tc, b) =
                          [k \in 1..(Min((b + 1) * batchSize, n) - b * batchSize) |->
                              tc[b * batchSize + k]]
                    /\ Len(BatchChunks(tc, b)) \in 1..batchSize
              /\ \A k \in 1..n :
                    Cardinality({b \in 0..(total - 1) :
                                   InBatch(BatchChunks(tc, b), tc[k].index)}) = 1
    /\ \A j \in 1..Len(audioChunks) :
          audioChunks[j].status = "generating" =>
              /\ run.phase = "inflight"
              /\ InBatch(BatchChunks(run.textChunks, run.batchIndex),
                         audioChunks[j].chunkIndex)

\* C29 witness: the last batch, shorter than batchSize, is in flight and its
\* jobs are the only ones generating.
C29_Witness ==
    /\ run.phase = "inflight"
    /\ run.batchIndex = TotalBatches(run.textChunks) - 1
    /\ run.batchIndex >= 1
    /\ Len(BatchChunks(run.textChunks, run.batchIndex)) < batchSize
    /\ \E j \in 1..Len(audioChunks) : audioChunks[j].status = "generating"

\* 1-based number of the batch the run is sending or waiting to send
BatchAtHand ==
    IF run.phase = "delay" /\ variant = "batchRoute"
    THEN run.batchIndex + 2
    ELSE run.batchIndex + 1

\* C30: during a run currentBatch is the 1-based number of the batch being
\* sent or waited for, 1 <= currentBatch <= totalBatches, and completedBatches
\* is currentBatch - 1 or currentBatch.
C30_CurrentBatch ==
    (isGenerating /\ run.phase # "none") =>
        /\ batchProgress # <<>>
        /\ batchProgress[1].currentBatch = BatchAtHand
        /\ 1 <= batchProgress[1].currentBatch
        /\ batchProgress[1].currentBatch <= batchProgress[1].totalBatches
        /\ batchProgress[1].completedBatches \in
              {batchProgress[1].currentBatch - 1, batchProgress[1].currentBatch}

C32_OrderIndependence ==
    /\ [][BatchSettled =>
            LET batchChunks == BatchChunks(run.textChunks, run.batchIndex)
                ok == {k \in 1..Len(calls) : calls[k] = "ok"}
            IN  /\ Len(audioChunks') = Len(audioChunks)
                /\ \A j \in 1..Len(audioChunks) :
                      /\ audioChunks'[j].chunkIndex = audioChunks[j].chunkIndex
                      /\ audioChunks'[j].text = audioChunks[j].text
                      /\ ~InBatch(batchChunks, audioChunks[j].chunkIndex) =>
                            audioChunks'[j] = audioChunks[j]
                      /\ \A k \in 1..Len(batchChunks) :
                            audioChunks[j].chunkIndex = batchChunks[k].index =>
                               IF calls[k] = "ok"
                               THEN /\ audioChunks'[j].status = "completed"
                                    /\ audioChunks'[j].audioUrl = "data:audio"
                                    /\ audioChunks'[j].filename =
                                          FileName(run.selectedProvider, run.selectedVoice,
                                                   batchChunks[k].index)
                                    /\ audioChunks'[j].duration =
                                          Ceil(Len(batchChunks[k].text), charsPerSecond)
                                    /\ audioChunks'[j].error = Undefined
                               ELSE /\ audioChunks'[j].status = "failed"
                                    /\ audioChunks'[j].audioUrl = ""
                                    /\ audioChunks'[j].filename = <<>>
                                    /\ audioChunks'[j].error = ErrorMessage(calls[k])
                /\ batchProgress'[1].completedChunks =
                      batchProgress[1].completedChunks + Cardinality(ok)
                /\ batchProgress'[1].failedChunks =
                      batchProgress[1].failedChunks + Len(calls) - Cardinality(ok)
       ]_vars
    /\ [](\A j, k \in 1..Len(audioChunks) :
             j < k => audioChunks[j].chunkIndex < audioChunks[k].chunkIndex)

\* C32 witness: the first batch was folded after its second request had settled
\* before its first one, one of the two failing and the other succeeding.
C32_Witness ==
    /\ run.phase = "delay"
    /\ Len(arrivals) >= 2
    /\ arrivals[1] > arrivals[2]
    /\ audioChunks[arrivals[1]].status = "failed"
    /\ audioChunks[arrivals[2]].status = "completed"

\* C33: a batch after the first is sent only by the timeout that ends the
\* wait begun when the previous batch settled: in the perChunk build the
\* countdown starts at delaySeconds, goes down by one per timeout and the batch
\* is sent by the timeout at 1; in the batchRoute build the batch is sent by
\* the one timeout of the wait.  The first batch is sent by the click itself,
\* and the settling of the last batch ends the run without a wait.
C33_RateLimitDelay ==
    [][/\ (run'.phase = "inflight" /\ run.phase # "inflight" /\ run'.batchIndex > 0) =>
             /\ DelayTick
             /\ run.phase = "delay"
             /\ variant = "perChunk" => run.i = 1
       /\ (run'.phase = "inflight" /\ run.phase # "inflight" /\ run'.batchIndex = 0) =>
             (StartRun /\ run.phase = "none")
       /\ (run.phase # "delay" /\ run'.phase = "delay") =>
             /\ BatchSettled \/ BatchThrows
             /\ variant = "perChunk" => (run'.i = delaySeconds /\ delayCountdown' = delaySeconds)
       /\ (run.phase = "delay" /\ run'.phase = "delay" /\ run' # run) =>
             (variant = "perChunk" /\ run'.i = run.i - 1 /\ run'.i >= 1)
       /\ (run.phase = "delay" /\ run'.phase # "delay") => run'.phase = "inflight"
       /\ ((BatchSettled \/ BatchThrows)
              /\ run.batchIndex = TotalBatches(run.textChunks) - 1) =>
             (run'.phase = "none" /\ delayCountdown' = 0)
       /\ ((BatchSettled \/ BatchThrows)
              /\ run.batchIndex < TotalBatches(run.textChunks) - 1) =>
             run'.phase = "delay"
    ]_vars

\* C33 witness: the second batch is in flight, after the wait that followed the
\* settling of the first.
C33_Witness ==
    /\ run.phase = "inflight"
    /\ run.batchIndex = 1
    /\ delayCountdown = 0
    /\ batchProgress[1].completedBatches = 1

\* C35: a click on Generate while the text is longer than the maximum length
\* creates no job, issues no request and starts no run.
C35_OverlongRejected ==
    [][(handleGenerateAudio /\ Len(text) > textareaMaxLength) =>
          UNCHANGED <<audioChunks, batchProgress, isGenerating, issued, calls, run>>
    ]_vars

\* C39: in every state the chunk list is chunkText applied to the trimmed text
\* with the chunk size of the selected provider when the text is not blank,
\* and empty when it is blank.
C39_ChunksFollowText ==
    textChunks = IF Trim(text) # <<>>
                 THEN chunkText(Trim(text), ProviderChunkSize(selectedProvider))
                 ELSE <<>>

\* C39 witness: after a text had been typed and chunked, a longer document was
\* uploaded and the provider changed; the chunk list is that of the document.
C39_Witness ==
    /\ message = "Successfully extracted"
    /\ selectedProvider = "elevenlabs"
    /\ text = OverlongText
    /\ Len(textChunks) >= 3
    /\ runs = 1
    /\ ~isGenerating

\* the chunks a run works on: those of its closure, or for the click that
\* starts it the chunks on the page
ChunksOfRun == IF run.phase = "none" THEN textChunks ELSE run.textChunks

\* C40: in every state each job has the index and the text of a chunk of the
\* current chunk list, and a step of a run changes a job only if the job has
\* the index and the text of a chunk the run works on.
C40_JobsOfCurrentText ==
    /\ [](\A k \in 1..Len(audioChunks) :
             \E c \in 1..Len(textChunks) :
                /\ textChunks[c].index = audioChunks[k].chunkIndex
                /\ textChunks[c].text = audioChunks[k].text)
    /\ [][\A k \in 1..Len(audioChunks') :
             (\/ k > Len(audioChunks)
              \/ audioChunks'[k] # audioChunks[k]) =>
                \E c \in 1..Len(ChunksOfRun) :
                   /\ ChunksOfRun[c].index = audioChunks'[k].chunkIndex
                   /\ ChunksOfRun[c].text = audioChunks'[k].text
                   /\ textChunks'[c] = ChunksOfRun[c]
       ]_vars

\* C40 witness: the text was replaced while a run on the earlier text was in
\* flight; the run goes on and the job list is empty.
C40_Witness ==
    /\ run.phase = "inflight"
    /\ run.batchIndex >= 1
    /\ run.textChunks # textChunks
    /\ Len(textChunks) >= 2
    /\ audioChunks = <<>>

-----------------------------------------------------------------------------
(* Properties of the batch route *)

\* the call of the route has sent its response
Responded == route.pc = "done"

\* C36: a request whose chunks field is missing, not an array or empty, whose
\* provider is missing or not one of the known providers, or whose voice field
\* for the provider is missing, is answered with status 400, and no promise
\* for a chunk is ever created for it.
C36_RouteRejects ==
    LET req == route.request
        bad == \/ req.chunks.kind \in {"missing", "notArray"}
               \/ req.chunks.items = <<>>
               \/ req.provider \in {Undefined, ""}
               \/ req.provider \notin {"minimax", "elevenlabs"}
               \/ (req.provider = "minimax" /\ req.voice \in {Undefined, ""})
               \/ (req.provider = "elevenlabs" /\ req.elevenLabsVoiceId \in {Undefined, ""})
    IN  (route.pc # "none" /\ bad) =>
           /\ route.calls = <<>>
           /\ route.arrivals = <<>>
           /\ route.pc \in {"received", "done"}
           /\ Responded =>
                 /\ route.response[1].status = 400
                 /\ route.response[1].error # Undefined
                 /\ route.response[1].results = <<>>

\* C36 witness: a request for ElevenLabs that carries chunks and a voice but no
\* elevenLabsVoiceId was answered with status 400.
C36_Witness ==
    /\ Responded
    /\ route.request.provider = "elevenlabs"
    /\ route.request.voice = "voice_id"
    /\ route.request.elevenLabsVoiceId = Undefined
    /\ Len(route.request.chunks.items) = MaxRequestChunks
    /\ route.response[1].status = 400
    /\ route.calls = <<>>

-----------------------------------------------------------------------------
(* Properties of chunkText *)

\* the call of chunkText has returned
Returned == chunker.pc = "done"

\* concatenation of the chunk texts in list order
RECURSIVE Concat(_)
Concat(chunks) ==
    IF chunks = <<>> THEN <<>> ELSE Head(chunks).text \o Concat(Tail(chunks))

\* a text without its whitespace characters
StripSpace(t) == SelectSeq(t, LAMBDA c : ~IsSpace(c))

\* 0-based offsets of the input covered by the range of some chunk
Covered(chunks) ==
    {p \in 0..(Len(chunker.text) - 1) :
        \E k \in 1..Len(chunks) : chunks[k].startChar <= p /\ p < chunks[k].endChar}

\* C13: for an empty text or a text of at most maxLength characters the result
\* is exactly one chunk: index 0, the input unchanged, startChar 0 and endChar
\* the length of the input.
C13_ShortInput ==
    (Returned /\ (chunker.text = <<>> \/ Len(chunker.text) <= chunker.maxLength)) =>
        chunker.chunks = << [index |-> 0, text |-> chunker.text,
                             startChar |-> 0, endChar |-> Len(chunker.text)] >>

\* C13 witness: the call returned the single empty-range chunk for the empty text.
C13_Witness ==
    /\ Returned
    /\ chunker.text = <<>>
    /\ Len(chunker.chunks) = 1
    /\ chunker.chunks[1].endChar = 0

\* C14: the chunk texts, concatenated in index order, are the input with only
\* whitespace removed: the non-whitespace characters agree in number and order,
\* each chunk text is the (possibly trimmed) substring of its own range, the
\* ranges follow one another without overlap and every character outside
\* all ranges is whitespace.
C14_Concatenation ==
    Returned =>
        LET chunks == chunker.chunks
            t == chunker.text
        IN  /\ StripSpace(Concat(chunks)) = StripSpace(t)
            /\ \A k \in 1..Len(chunks) :
                  /\ 0 <= chunks[k].startChar
                  /\ chunks[k].startChar <= chunks[k].endChar
                  /\ chunks[k].endChar <= Len(t)
                  /\ chunks[k].text \in
                        {Substring(t, chunks[k].startChar, chunks[k].endChar),
                         Trim(Substring(t, chunks[k].startChar, chunks[k].endChar))}
                  /\ k > 1 => chunks[k - 1].endChar <= chunks[k].startChar
            /\ \A p \in (0..(Len(t) - 1)) \ Covered(chunks) : IsSpace(t[p + 1])

\* C14 witness: a text was split into several chunks and whitespace was trimmed
\* at a boundary.
C14_Witness ==
    /\ Returned
    /\ Len(chunker.chunks) >= 2
    /\ Len(Concat(chunker.chunks)) < Len(chunker.text)
    /\ StripSpace(chunker.text) # <<>>

\* C15: no chunk text is longer than maxLength.
C15_LengthBound ==
    Returned =>
        \A k \in 1..Len(chunker.chunks) :
            Len(chunker.chunks[k].text) <= chunker.maxLength

\* C15 witness: the first split was a space fallback whose space sat exactly at
\* the candidate boundary, so the range is maxLength + 1 long and the chunk
\* text maxLength.
C15_Witness ==
    /\ Returned
    /\ Len(chunker.text) > chunker.maxLength + 1
    /\ chunker.text[chunker.maxLength + 1] = " "
    /\ Len(chunker.chunks) >= 2
    /\ chunker.chunks[1].startChar = 0
    /\ chunker.chunks[1].endChar = chunker.maxLength + 1
    /\ Len(chunker.chunks[1].text) = chunker.maxLength

\* C16: the chunk at list position i (from 0) has index i, during the call and
\* at its return; a discarded whitespace-only segment consumes no index.
C16_Indices ==
    /\ \A k \in 1..Len(chunker.chunks) : chunker.chunks[k].index = k - 1
    /\ chunker.pc = "loop" => chunker.chunkIndex = Len(chunker.chunks)

\* C16 witness: a whitespace-only segment between two emitted chunks was
\* discarded.
C16_Witness ==
    /\ Returned
    /\ \E k \in 2..Len(chunker.chunks) :
          chunker.chunks[k - 1].endChar < chunker.chunks[k].startChar

\* offsets p in (cur, chunkEnd] such that the character before p is whitespace
\* matched by a sentence boundary inside the window [cur, chunkEnd): a line
\* break, or whitespace reached from a sentence terminator of the window
\* through whitespace only
BoundaryEnds(t, cur, chunkEnd) ==
    {p \in (cur + 1)..chunkEnd :
        \/ IsLineBreak(t[p])
        \/ /\ IsSpace(t[p])
           /\ \E j \in (cur + 1)..(p - 1) :
                 /\ IsTerminator(t[j])
                 /\ \A k \in (j + 1)..p : IsSpace(t[k])}

Maximum(S) == CHOOSE x \in S : \A y \in S : y <= x

\* C17: in an iteration that has to split, if the window holds a sentence
\* terminator followed by whitespace, or a line break, the split falls right
\* after the matched whitespace of the last such boundary; and the example
\* text with maxLength 25 is first split at offset 13 after "Hello world.".
C17_SentenceSplit ==
    /\ [][(/\ chunker.pc = "loop"
           /\ chunker.currentPosition + chunker.maxLength < Len(chunker.text)
           /\ BoundaryEnds(chunker.text, chunker.currentPosition,
                           chunker.currentPosition + chunker.maxLength) # {}) =>
              chunker'.currentPosition =
                  Maximum(BoundaryEnds(chunker.text, chunker.currentPosition,
                                       chunker.currentPosition + chunker.maxLength))
       ]_vars
    /\ []((Returned /\ chunker.text = HelloText) =>
             /\ chunker.chunks[1].endChar = 13
             /\ chunker.chunks[1].text = SubSeq(HelloText, 1, 12))

\* C17 witness: the call on the example text has returned, its first chunk
\* being "Hello world." cut at offset 13.
C17_Witness ==
    /\ Returned
    /\ chunker.text = HelloText
    /\ chunker.maxLength = 25
    /\ Len(chunker.chunks) = 3
    /\ chunker.chunks[1].endChar = 13

\* C18: a text longer than maxLength made of letters only is cut hard: every
\* chunk but the last has exactly maxLength characters, the last has between 1
\* and maxLength, and the chunk texts concatenate to the input.
C18_HardCuts ==
    (/\ Returned
     /\ Len(chunker.text) > chunker.maxLength
     /\ \A p \in 1..Len(chunker.text) : chunker.text[p] = "a") =>
        LET chunks == chunker.chunks
            n == Len(chunks)
        IN  /\ n = Ceil(Len(chunker.text), chunker.maxLength)
            /\ \A k \in 1..(n - 1) : Len(chunks[k].text) = chunker.maxLength
            /\ Len(chunks[n].text) \in 1..chunker.maxLength
            /\ Concat(chunks) = chunker.text

\* C18 witness: a token was cut into three chunks, the last one shorter than
\* maxLength.
C18_Witness ==
    /\ Returned
    /\ \A p \in 1..Len(chunker.text) : chunker.text[p] = "a"
    /\ Len(chunker.chunks) = 3
    /\ Len(chunker.chunks[3].text) < chunker.maxLength

\* C19: every iteration that goes round the loop moves currentPosition strictly
\* forward, currentPosition never passes the end of the text, and so the loop
\* is left after at most length(text) iterations.
C19_Terminates ==
    /\ [][(chunker.pc = "loop" /\ chunker'.pc = "loop") =>
              chunker'.currentPosition > chunker.currentPosition]_vars
    /\ [](chunker.currentPosition <= Len(chunker.text))
    /\ [](chunker.iterations <= Len(chunker.text))

\* C19 witness: the call returned after at least three iterations of the loop.
C19_Witness ==
    /\ Returned
    /\ chunker.iterations >= 3
    /\ chunker.currentPosition > 0

\* C20: for an input longer than maxLength every emitted chunk, the last one
\* included, has as text the trimmed substring of its range, and that text is
\* not empty.
C20_TrimmedNonEmpty ==
    (Returned /\ Len(chunker.text) > chunker.maxLength) =>
        \A k \in 1..Len(chunker.chunks) :
            /\ chunker.chunks[k].text =
                  Trim(Substring(chunker.text, chunker.chunks[k].startChar,
                                 chunker.chunks[k].endChar))
            /\ chunker.chunks[k].text # <<>>

\* 0-based offsets p with currentPosition < p <= chunkEnd that hold a space
SpacesUpTo(t, cur, chunkEnd) ==
    {p \in (cur + 1)..chunkEnd : t[p + 1] = " "}

\* C34: in an iteration that has to split and whose window holds no sentence
\* boundary, the split falls right after the last space at an offset in
\* (currentPosition, currentPosition + maxLength] if there is one, and exactly
\* at currentPosition + maxLength if there is none.
C34_SpaceFallback ==
    [][(/\ chunker.pc = "loop"
        /\ chunker.currentPosition + chunker.maxLength < Len(chunker.text)
        /\ BoundaryEnds(chunker.text, chunker.currentPosition,
                        chunker.currentPosition + chunker.maxLength) = {}) =>
           LET cur == chunker.currentPosition
               chunkEnd == cur + chunker.maxLength
               spaces == SpacesUpTo(chunker.text, cur, chunkEnd)
           IN  chunker'.currentPosition =
                  IF spaces # {} THEN Maximum(spaces) + 1 ELSE chunkEnd
    ]_vars

\* C34 witness: a text without sentence boundaries was split once right after
\* a space lying exactly at currentPosition + maxLength, and once cut hard
\* although its window began with a space.
C34_Witness ==
    /\ Returned
    /\ \A p \in 1..Len(chunker.text) : chunker.text[p] \in {"a", " "}
    /\ \E i, k \in 1..Len(chunker.chunks) :
          /\ chunker.chunks[i].endChar - chunker.chunks[i].startChar = chunker.maxLength + 1
          /\ chunker.chunks[i].endChar < Len(chunker.text)
          /\ chunker.text[chunker.chunks[i].endChar] = " "
          /\ chunker.chunks[k].endChar - chunker.chunks[k].startChar = chunker.maxLength
          /\ chunker.chunks[k].endChar < Len(chunker.text)
          /\ chunker.text[chunker.chunks[k].startChar + 1] = " "
          /\ chunker.text[chunker.chunks[k].endChar] = "a"

-----------------------------------------------------------------------------
(* Properties of the export *)

\* a is before b in lexicographic order of character codes
RECURSIVE LexLess(_, _)
LexLess(a, b) ==
    IF b = <<>> THEN FALSE
    ELSE IF a = <<>> THEN TRUE
    ELSE IF Head(a) # Head(b) THEN Head(a) < Head(b)
    ELSE LexLess(Tail(a), Tail(b))

\* C21: the entry names of a saved archive sort lexicographically in
\* increasing chunkIndex.
C21_ExportOrdering ==
    archive # <<>> =>
        \A i, j \in 1..Len(archive[1]) :
            archive[1][i].chunkIndex < archive[1][j].chunkIndex =>
                LexLess(archive[1][i].prefix, archive[1][j].prefix)

\* C22: a click on Download All while no job is completed reports the
\* zero-completed error and saves no archive.
C22_ExportRejected ==
    [][((\E fetched \in SUBSET (0..(MaxChunks - 1)) : handleDownloadAllAsZip(fetched))
          /\ \A k \in 1..Len(audioChunks) : audioChunks[k].status # "completed") =>
            /\ archive' = archive
            /\ message' = "No completed audio chunks to download"
    ]_vars

\* C22 witness: the export was refused for a job list whose jobs all failed.
C22_Witness ==
    /\ message = "No completed audio chunks to download"
    /\ archive = <<>>
    /\ Len(audioChunks) >= 2
    /\ \A k \in 1..Len(audioChunks) : audioChunks[k].status = "failed"

\* C38: an export that reported success saved an archive with exactly one
\* entry for every completed job and no entry for any other job.
C38_ExportExact ==
    message = "Downloaded audio files as ZIP" =>
        /\ archive # <<>>
        /\ \A k \in 1..Len(audioChunks) :
              Cardinality({i \in 1..Len(archive[1]) :
                             archive[1][i].chunkIndex = audioChunks[k].chunkIndex})
                 = IF audioChunks[k].status = "completed" THEN 1 ELSE 0
        /\ \A i \in 1..Len(archive[1]) :
              \E k \in 1..Len(audioChunks) :
                 archive[1][i].chunkIndex = audioChunks[k].chunkIndex

====
